---- MODULE Spec2Model ----
(***************************************************************************)
(* Model of src/app.py: the cost and nutrition rollup of a bakery catalog  *)
(* (master ingredients -> bases -> final products -> margins).             *)
(*                                                                         *)
(* Numbers.  The program computes with float64 columns.  A float is        *)
(* modelled as a record [k, n, d]: k = "num" is the exact rational n/d in  *)
(* lowest terms with d > 0, k = "nan" is NaN and k = "inf" is +/-Infinity  *)
(* (sign in n).  The binary rounding error of float64 is modelled where it *)
(* decides a result: a value that is exactly halfway between two decimals  *)
(* is rounded by the code to either of them, as the error of the float     *)
(* falls; the model takes the direction as an input of the rounding and    *)
(* the steps of the run choose it freely.                                  *)
(*                                                                         *)
(* Cells.  A spreadsheet cell as gspread returns it is a record:           *)
(*   [t |-> "int", n, d]    a numeric cell holding the integer n           *)
(*   [t |-> "float", n, d]  a numeric cell holding n / 10^d, printed with  *)
(*                          d >= 1 decimals by str()                       *)
(*   [t |-> "str", s]       a text cell holding the characters s ("" when  *)
(*                          blank, "R$ 12,50", "a"); what number it is     *)
(*                          read as is computed from the characters        *)
(***************************************************************************)
EXTENDS Integers, Sequences, FiniteSets, TLC

----------------------------------------------------------------------------
(* float64 values *)

Abs(x) == IF x < 0 THEN -x ELSE x

RECURSIVE GCD(_, _)
GCD(a, b) == IF b = 0 THEN a ELSE GCD(b, a % b)

RECURSIVE Pow10(_)
Pow10(e) == IF e = 0 THEN 1 ELSE 10 * Pow10(e - 1)

\* the rational n/d (d # 0) in lowest terms
F(n, d) ==
    LET s == IF d < 0 THEN -1 ELSE 1
        g == GCD(Abs(n), Abs(d))
    IN  [k |-> "num", n |-> (s * n) \div g, d |-> (s * d) \div g]

Zero == F(0, 1)
One == F(1, 1)
NaN == [k |-> "nan", n |-> 0, d |-> 1]
PInf == [k |-> "inf", n |-> 1, d |-> 1]
NInf == [k |-> "inf", n |-> -1, d |-> 1]

IsNum(a) == a.k = "num"
IsNaN(a) == a.k = "nan"
IsInf(a) == a.k = "inf"
IsZero(a) == a.k = "num" /\ a.n = 0
Sign(a) == IF a.n > 0 THEN 1 ELSE IF a.n < 0 THEN -1 ELSE 0

FNeg(a) == [a EXCEPT !.n = -a.n]

FAdd(a, b) ==
    IF IsNaN(a) \/ IsNaN(b) THEN NaN
    ELSE IF IsInf(a) /\ IsInf(b) THEN (IF a.n = b.n THEN a ELSE NaN)
    ELSE IF IsInf(a) THEN a
    ELSE IF IsInf(b) THEN b
    ELSE F(a.n * b.d + b.n * a.d, a.d * b.d)

FSub(a, b) == FAdd(a, FNeg(b))

FMul(a, b) ==
    IF IsNaN(a) \/ IsNaN(b) THEN NaN
    ELSE IF IsInf(a) \/ IsInf(b)
         THEN (IF Sign(a) * Sign(b) = 0 THEN NaN
               ELSE IF Sign(a) * Sign(b) > 0 THEN PInf ELSE NInf)
    ELSE F(a.n * b.n, a.d * b.d)

\* IEEE division as numpy does it on float64 columns: x/0 is +/-inf, 0/0 is NaN
FDiv(a, b) ==
    IF IsNaN(a) \/ IsNaN(b) THEN NaN
    ELSE IF IsInf(a) THEN (IF IsInf(b) THEN NaN
                           ELSE IF Sign(b) < 0 THEN FNeg(a) ELSE a)
    ELSE IF IsInf(b) THEN Zero
    ELSE IF b.n = 0 THEN (IF a.n = 0 THEN NaN ELSE IF a.n > 0 THEN PInf ELSE NInf)
    ELSE F(a.n * b.d, a.d * b.n)

\* a < b on float64: false when either is NaN, -inf below and +inf above every
\* other value
FLess(a, b) ==
    IF IsNaN(a) \/ IsNaN(b) THEN FALSE
    ELSE IF IsInf(a) THEN a.n < 0 /\ b # a
    ELSE IF IsInf(b) THEN b.n > 0
    ELSE a.n * b.d < b.n * a.d

\* the exact value of a is halfway between two multiples of 10^-dec
IsTie(a, dec) == IsNum(a) /\ 2 * ((a.n * Pow10(dec)) % a.d) = a.d

\* the positions of the sequence valores whose value is halfway at dec decimals
halfway(valores, dec) == {i \in DOMAIN valores : IsTie(valores[i], dec)}

\* Series.round(dec): the nearest multiple of 10^-dec; of a value halfway
\* between two, the upper one when acima and the lower one otherwise (the
\* float64 the code rounds lies on either side of the halfway point)
FRound(a, dec, acima) ==
    IF ~IsNum(a) THEN a
    ELSE LET s == Pow10(dec)
             num == a.n * s
             q == num \div a.d
             r == num % a.d
         IN  IF 2 * r < a.d THEN F(q, s)
             ELSE IF 2 * r > a.d THEN F(q + 1, s)
             ELSE IF acima THEN F(q + 1, s) ELSE F(q, s)

\* Series.fillna(v)
fillna(a, v) == IF IsNaN(a) THEN v ELSE a

\* Series.replace(old, new) for a numeric old
replace(a, old, new) == IF a = old THEN new ELSE a

\* Series.replace([np.inf, -np.inf], np.nan)
replace_inf(a) == IF IsInf(a) THEN NaN ELSE a

----------------------------------------------------------------------------
(* cells and their conversion *)

IntCell(i) == [t |-> "int", n |-> i, d |-> 0]
FloatCell(m, e) == [t |-> "float", n |-> m, d |-> e]
TextCell(s) == [t |-> "str", s |-> s]

\* the character of the text s at position i, "" beyond its ends
Char(s, i) == IF i \in 1..Len(s) THEN SubSeq(s, i, i) ELSE ""

\* the decimal digits and the number each writes
DigitValue == [c \in {"0", "1", "2", "3", "4", "5", "6", "7", "8", "9"} |->
                  CHOOSE v \in 0..9 : Char("0123456789", v + 1) = c]
IsDigit(c) == c \in DOMAIN DigitValue
\* the blanks pd.to_numeric skips around a number: space, tab, line feed,
\* vertical tab (U+000B, written as the character itself), form feed and
\* carriage return
IsSpace(c) == c \in {" ", "\t", "\n", "", "\f", "\r"}

\* str.isspace() of a character, the blanks str.strip() removes: those above
\* and the separators U+001C to U+001F, next line (U+0085) and the no-break
\* space (U+00A0), each written as the character itself.  (The blanks from
\* U+1680 on are characters a text of the model cannot hold.)
isspace(c) == IsSpace(c) \/ c \in {"", "", "", "", "", " "}

UpperChars == "ABCDEFGHIJKLMNOPQRSTUVWXYZ"
LowerChars == "abcdefghijklmnopqrstuvwxyz"
lower_char(c) ==
    IF \E v \in 1..26 : Char(UpperChars, v) = c
    THEN Char(LowerChars, CHOOSE v \in 1..26 : Char(UpperChars, v) = c)
    ELSE c

\* str.lower()
RECURSIVE lower(_)
lower(s) == IF s = "" THEN "" ELSE lower_char(Char(s, 1)) \o lower(Tail(s))

\* str.replace(old, new, regex=False) for a non-empty old
RECURSIVE str_replace(_, _, _)
str_replace(s, old, new) ==
    IF Len(s) < Len(old) THEN s
    ELSE LET hit == SubSeq(s, 1, Len(old)) = old
         IN  (IF hit THEN new ELSE Char(s, 1))
                \o str_replace(SubSeq(s, (IF hit THEN Len(old) ELSE 1) + 1, Len(s)),
                               old, new)

\* str.strip()
strip(s) ==
    LET keep == {i \in 1..Len(s) : ~isspace(Char(s, i))}
    IN  IF keep = {} THEN ""
        ELSE SubSeq(s, CHOOSE i \in keep : \A j \in keep : i <= j,
                       CHOOSE i \in keep : \A j \in keep : j <= i)

\* the number of characters of s from position i on that satisfy Is
Run(s, i, Is(_)) ==
    CHOOSE k \in 0..(Len(s) + 1 - i) :
        /\ \A j \in i..(i + k - 1) : Is(Char(s, j))
        /\ ~Is(Char(s, i + k))

\* the number a text of digits writes
RECURSIVE digits_value(_)
digits_value(s) ==
    IF s = "" THEN 0
    ELSE 10 * digits_value(SubSeq(s, 1, Len(s) - 1)) + DigitValue[Char(s, Len(s))]

\* the float of sign sinal, digits mant and decimal exponent e
scaled(sinal, mant, e) ==
    IF e >= 0 THEN F(sinal * mant * Pow10(e), 1) ELSE F(sinal * mant, Pow10(-e))

\* the end of the parse of s as a number of sign sinal and digits mant, nf of
\* them after the point: the digits of the exponent start at p5 (com_e: there
\* is an exponent mark, e_sinal its sign) and only blanks may follow them
parse_end(s, sinal, mant, nf, com_e, e_sinal, p5) ==
    LET ne == IF com_e THEN Run(s, p5, IsDigit) ELSE 0
    IN  IF (com_e => ne > 0) /\ p5 + ne + Run(s, p5 + ne, IsSpace) = Len(s) + 1
        THEN scaled(sinal, mant, e_sinal * digits_value(SubSeq(s, p5, p5 + ne - 1)) - nf)
        ELSE NaN

\* the parse from p4, where the digits end: an exponent mark and its sign
parse_exponent(s, sinal, mant, nf, p4) ==
    LET com_e == Char(s, p4) \in {"e", "E"}
    IN  parse_end(s, sinal, mant, nf, com_e,
                  IF com_e /\ Char(s, p4 + 1) = "-" THEN -1 ELSE 1,
                  IF com_e /\ Char(s, p4 + 1) \in {"+", "-"} THEN p4 + 2
                  ELSE IF com_e THEN p4 + 1 ELSE p4)

\* the parse after the digits inteiros before the point: nf digits from p3
\* on; a number has a digit before or after the point
parse_fraction(s, sinal, inteiros, p3, nf) ==
    IF Len(inteiros) + nf = 0 THEN NaN
    ELSE parse_exponent(s, sinal,
                        digits_value(inteiros \o SubSeq(s, p3, p3 + nf - 1)),
                        nf, p3 + nf)

\* the parse of the digits from p1 to before p2 and of a decimal point at p2
parse_point(s, sinal, p1, p2) ==
    parse_fraction(s, sinal, SubSeq(s, p1, p2 - 1),
                   IF Char(s, p2) = "." THEN p2 + 1 ELSE p2,
                   IF Char(s, p2) = "." THEN Run(s, p2 + 1, IsDigit) ELSE 0)

\* the parse from p0, after the leading blanks: a sign, then digits
parse_sign(s, p0, p1) ==
    parse_point(s, IF Char(s, p0) = "-" THEN -1 ELSE 1, p1, p1 + Run(s, p1, IsDigit))

\* the text s read as a number: blanks, a sign, digits with or without a
\* decimal point, an exponent, blanks; NaN when it is not of this form
parse_number(s, p0) ==
    parse_sign(s, p0, IF Char(s, p0) \in {"+", "-"} THEN p0 + 1 ELSE p0)

\* numero, what the text s is read as when it is a number; else infinity
\* when s is a spelling of it to_numeric knows, in small or capital letters
infinity_or(s, numero) ==
    IF ~IsNaN(numero) \/ Len(s) \notin 3..9 THEN numero
    ELSE IF lower(s) \in {"inf", "+inf", "infinity", "+infinity"} THEN PInf
    ELSE IF lower(s) \in {"-inf", "-infinity"} THEN NInf
    ELSE NaN

\* pd.to_numeric(s, errors='coerce') of a text: a number, a spelling of
\* infinity, or NaN, the empty text included.  (Numbers of more digits than
\* the integers of the model hold are beyond it.)
str_to_float(s) ==
    IF s = "" THEN NaN ELSE infinity_or(s, parse_number(s, 1 + Run(s, 1, IsSpace)))

\* line 73 on a text: drop 'R$', drop '.', ',' -> '.', strip
clean_currency(s) ==
    strip(str_replace(str_replace(str_replace(s, "R$", ""), ".", ""), ",", "."))

\* the texts the cells of the sheets below hold
SheetTexts ==
    {"", "a", "b", "inf", "0,5", "1,005", "R$ 9,00", "R$ 10,00", "R$ 10,00",
     "R$ 37,50", "4 ", "4 "}

\* clean_currency of these texts, and str_to_float of them and of what
\* clean_currency makes of them, as tables: TLC computes a table once, and
\* the conversion of a text anew wherever a cell is converted
CleanedTexts == [s \in SheetTexts |-> clean_currency(s)] @@ <<>>
ParsedTexts ==
    [s \in SheetTexts \cup {CleanedTexts[t] : t \in SheetTexts} |-> str_to_float(s)]
        @@ <<>>

\* clean_currency(s) and str_to_float(s), looked up where a table holds them
cleaned(s) == IF s \in DOMAIN CleanedTexts THEN CleanedTexts[s] ELSE clean_currency(s)
parsed(s) == IF s \in DOMAIN ParsedTexts THEN ParsedTexts[s] ELSE str_to_float(s)

\* pd.to_numeric(cell, errors='coerce')
to_numeric(c) ==
    CASE c.t = "int" -> F(c.n, 1)
      [] c.t = "float" -> F(c.n, Pow10(c.d))
      [] OTHER -> parsed(c.s)

\* the dtype pd.DataFrame gives a column of cells: object when a cell is text,
\* float64 when the cells are numbers and one of them is a float, else int64
dtype(cells) ==
    IF \E i \in DOMAIN cells : cells[i].t = "str" THEN "object"
    ELSE IF \E i \in DOMAIN cells : cells[i].t = "float" THEN "float64"
    ELSE "int64"

\* the number of decimal digits of n > 0
Digits(n) == CHOOSE k \in 1..9 : n < Pow10(k) /\ (k = 1 \/ n >= Pow10(k - 1))

\* the digits m and the decimals e >= 1 str() prints for the float m / 10^e:
\* no trailing zero after the first decimal
float_repr(m, e) ==
    IF e = 0 THEN [n |-> m * 10, d |-> 1]
    ELSE LET z == CHOOSE k \in 0..(e - 1) :
                      /\ m % Pow10(k) = 0
                      /\ (k = e - 1 \/ m % Pow10(k + 1) # 0)
         IN  [n |-> m \div Pow10(z), d |-> e - z]

\* the printed float r (digits r.n, decimals r.d) with '.' removed, read back
\* by to_numeric.  Printed in
\* positional form ("1.5" -> "15") the digits are the number; below 1e-4 the
\* float is printed with an exponent ("1.5e-05" -> "15e-05", "1e-05" as it
\* is), which survives.  (Floats from 1e16 on, also printed with an exponent,
\* are beyond the integers of the model.)
without_point(r) ==
    IF r.n # 0 /\ Abs(r.n) * 10000 < Pow10(r.d)
    THEN F(r.n, Pow10(r.d - Digits(Abs(r.n)) + 1))
    ELSE F(r.n, 1)

float_without_point(m, e) == without_point(float_repr(m, e))

\* astype(str), drop 'R$', drop '.', ',' -> '.', strip; then to_numeric, on a
\* cell of a column of dtype tipo: the decimal point of a number is dropped
\* with the thousands dots, and in a float64 column an integer is a float
\* ("3.0" -> "30")
currency_to_numeric(c, tipo) ==
    CASE c.t = "int" -> IF tipo = "float64" THEN float_without_point(c.n, 0)
                        ELSE F(c.n, 1)
      [] c.t = "float" -> float_without_point(c.n, c.d)
      [] OTHER -> parsed(cleaned(c.s))

IsCurrencyColumn(column_name) == column_name \in {"VALOR_PACOTE", "PRECO_VENDA_FINAL"}

\* sanitize_and_convert: the table df with the cells of column column_name
\* converted to floats; df as it is when it has no such column (line 68)
sanitize_and_convert(df, column_name) ==
    IF df = <<>> \/ column_name \notin DOMAIN df[1] THEN df
    ELSE LET tipo == dtype([i \in DOMAIN df |-> df[i][column_name]])
         IN  [i \in DOMAIN df |->
                [df[i] EXCEPT ![column_name] =
                    IF IsCurrencyColumn(column_name)
                    THEN fillna(currency_to_numeric(@, tipo), Zero)
                    ELSE fillna(to_numeric(@), Zero)]]

----------------------------------------------------------------------------
(* dictionaries and sequences *)

Range(s) == {s[i] : i \in DOMAIN s}

\* dict.get(key, default)
Get(dict, key, default) == IF key \in DOMAIN dict THEN dict[key] ELSE default

\* df.set_index(keys)[vals].to_dict(): the last row of a key wins
to_dict(keys, vals) ==
    [key \in Range(keys) |->
        vals[CHOOSE i \in DOMAIN keys :
                keys[i] = key /\ \A j \in DOMAIN keys : keys[j] = key => j <= i]]

\* {**a, **b}
MergeDicts(a, b) ==
    [key \in DOMAIN a \cup DOMAIN b |-> IF key \in DOMAIN b THEN b[key] ELSE a[key]]

\* the sum of a group as groupby(...).sum() takes it: a NaN value is left out
\* (it adds nothing), 0.0 when no value is left; infinite values are added as
\* float64 adds them (inf + 1 is inf, inf + -inf is NaN)
RECURSIVE SumSeq(_)
SumSeq(s) ==
    IF s = <<>> THEN Zero ELSE FAdd(fillna(Head(s), Zero), SumSeq(Tail(s)))

RECURSIVE Concat(_)
Concat(ss) == IF ss = <<>> THEN <<>> ELSE Head(ss) \o Concat(Tail(ss))

----------------------------------------------------------------------------
(* tables *)

\* Python's order of the names used in the inputs (groupby and an outer merge
\* sort their keys)
NomeOrdem == <<"ACUCAR", "BOLO", "FARINHA", "MASSA", "RECHEIO">>

sorted_keys(S) == SelectSeq(NomeOrdem, LAMBDA x : x \in S)

\* df.columns of a table held as a sequence of records
Columns(df) == IF df = <<>> THEN {} ELSE DOMAIN df[1]

Column(df, col) == [i \in DOMAIN df |-> df[i][col]]

\* the elements of s at the indices in keep, in order
SubSeqAt(s, keep) ==
    [p \in 1..Cardinality(keep) |->
        s[CHOOSE i \in keep : Cardinality({j \in keep : j <= i}) = p]]

\* what pandas compares of a cell: a number by its value (2 equals 2.0), a
\* text by its characters
cell_key(c) ==
    IF c.t \in {"int", "float"}
    THEN [t |-> "num", v |-> to_numeric(c)]
    ELSE [t |-> "str", s |-> c.s]

\* DataFrame.drop_duplicates() of rows with the columns nome (a name) and col (a
\* cell): the first of the rows that compare equal is kept
drop_duplicates(s, nome, col) ==
    SubSeqAt(s, {i \in DOMAIN s :
                    \A j \in 1..(i - 1) :
                        s[j][nome] # s[i][nome]
                            \/ cell_key(s[j][col]) # cell_key(s[i][col])})

----------------------------------------------------------------------------
(* calculate_master_data *)

\* QUANT_PACOTE as a non-zero number
quant_pacote(c) == replace(fillna(to_numeric(c), One), Zero, One)

\* the unit value of one row of the master ingredients, col_valor sanitized
master_unit_value(row, col_valor) ==
    IF col_valor = "VALOR_PACOTE"
    THEN FDiv(row[col_valor], quant_pacote(row.QUANT_PACOTE))
    ELSE row[col_valor]

\* lines 97-107 on the sanitized sheet df: the unit value and the unit of
\* every ingredient
master_dicts(df, col_valor) ==
    [data_dict |->
        to_dict(Column(df, "NOME_ITEM"),
                [i \in DOMAIN df |-> master_unit_value(df[i], col_valor)]),
     unidade_dict |-> to_dict(Column(df, "NOME_ITEM"), Column(df, "UNIDADE_PACOTE"))]

calculate_master_data(df_ingredientes, col_valor) ==
    master_dicts(sanitize_and_convert(df_ingredientes, col_valor), col_valor)

----------------------------------------------------------------------------
(* calculate_recipe_general *)

quant_receita(c) == fillna(to_numeric(c), Zero)

calc_item_total_value(nome_ingrediente, quantidade_receita, unit_value_dict) ==
    IF nome_ingrediente \notin DOMAIN unit_value_dict
    THEN Zero
    ELSE FMul(unit_value_dict[nome_ingrediente], quantidade_receita)

\* one row of the returned detail: the input line with the two new columns
detail_row(row, unit_value_dict, receita_col_name) ==
    LET q == quant_receita(row.QUANT_RECEITA)
    IN  (receita_col_name :> row[receita_col_name]) @@
        [NOME_INGREDIENTE |-> row.NOME_INGREDIENTE,
         QUANT_RECEITA |-> q,
         VALOR_UNITARIO_ITEM |-> Get(unit_value_dict, row.NOME_INGREDIENTE, Zero),
         VALOR_TOTAL_CALCULADO |->
             calc_item_total_value(row.NOME_INGREDIENTE, q, unit_value_dict)]

\* df.groupby(col)['VALOR_TOTAL_ITEM'].sum().to_dict()
groupby_sum(df, col) ==
    [r \in Range(Column(df, col)) |->
        SumSeq(Column(SelectSeq(df, LAMBDA row : row[col] = r), "VALOR_TOTAL_CALCULADO"))]

\* lines 131 to 139 on the detail df: the totals and the detail
recipe_totals(df, receita_col_name) ==
    [total_value_dict |-> groupby_sum(df, receita_col_name), df |-> df]

calculate_recipe_general(df_receitas, unit_value_dict, receita_col_name) ==
    recipe_totals([i \in DOMAIN df_receitas |->
                      detail_row(df_receitas[i], unit_value_dict, receita_col_name)],
                  receita_col_name)

----------------------------------------------------------------------------
(* yield adjustment and the unified value map *)

rendimento_final(c) == replace(fillna(to_numeric(c), One), Zero, One)

\* a variant of rendimento_bases_dict without the index on the base name: every
\* base gets the yield of the last line of the sheet
rendimento_bases_dict_ultima_linha(df_bases) ==
    [b \in Range(Column(df_bases, "NOME_BASE")) |->
        rendimento_final(df_bases[Len(df_bases)].RENDIMENTO_FINAL_UNIDADES)]

\* a variant of rendimento_bases_dict that keeps the yield of the first line of
\* each base
rendimento_bases_dict_primeira_linha(df_bases) ==
    [b \in Range(Column(df_bases, "NOME_BASE")) |->
        rendimento_final(
            df_bases[CHOOSE i \in DOMAIN df_bases :
                        /\ df_bases[i].NOME_BASE = b
                        /\ \A j \in 1..(i - 1) : df_bases[j].NOME_BASE # b]
                .RENDIMENTO_FINAL_UNIDADES)]

\* lines 158 and 159 on the distinct pairs: coerced, the last pair of a base wins
rendimento_dict(df_rendimento) ==
    to_dict(Column(df_rendimento, "NOME_BASE"),
            [i \in DOMAIN df_rendimento |->
                rendimento_final(df_rendimento[i].RENDIMENTO_FINAL_UNIDADES)])

\* rendimento_bases: distinct (base, yield) pairs, coerced, last pair wins
rendimento_bases_dict(df_bases) ==
    rendimento_dict(
        drop_duplicates([i \in DOMAIN df_bases |->
            [NOME_BASE |-> df_bases[i].NOME_BASE,
             RENDIMENTO_FINAL_UNIDADES |-> df_bases[i].RENDIMENTO_FINAL_UNIDADES]],
            "NOME_BASE", "RENDIMENTO_FINAL_UNIDADES"))

\* valor / rendimento for every base of bases_dict
bases_ajustado_dict(bases_dict, rendimento_bases) ==
    [base \in DOMAIN bases_dict |->
        FDiv(bases_dict[base], Get(rendimento_bases, base, One))]

\* a variant of total_dict merged the other way round: the ingredient wins
total_dict_ingredient_wins(ingredientes_dict, ajustado_dict) ==
    MergeDicts(ajustado_dict, ingredientes_dict)

\* {**ingredientes_dict, **bases_ajustado_dict}
total_dict(ingredientes_dict, ajustado_dict) == MergeDicts(ingredientes_dict, ajustado_dict)

----------------------------------------------------------------------------
(* get_calculated_cost_data *)

TipoFinal == "Bolo Final (Especial)"
TipoBase == "Bolo Comum (Base)"

\* pd.DataFrame(dict.items(), columns=['PRODUTO', col]) with the Tipo column;
\* the dicts come from a groupby, so their keys are in sorted order
items_frame(dict, tipo) ==
    LET keys == sorted_keys(DOMAIN dict)
    IN  [i \in DOMAIN keys |-> [PRODUTO |-> keys[i], Custo |-> dict[keys[i]], Tipo |-> tipo]]

\* step 5 before the rounding: finals then bases
cost_frame(custo_finais_dict, custo_bases_ajustado_dict) ==
    items_frame(custo_finais_dict, TipoFinal)
        \o items_frame(custo_bases_ajustado_dict, TipoBase)

\* step 5: finals then bases, the cost rounded to 2 decimals; acima holds the
\* rows whose cost, if halfway, is rounded up
round_cost(df, acima) ==
    [i \in DOMAIN df |-> [df[i] EXCEPT !.Custo = FRound(@, 2, i \in acima)]]

compile_cost_frame(custo_finais_dict, custo_bases_ajustado_dict, acima) ==
    round_cost(cost_frame(custo_finais_dict, custo_bases_ajustado_dict), acima)

\* a variant of merge_precos that joins with how='inner'
merge_precos_inner(df, df_precos_mercado) ==
    Concat([i \in DOMAIN df |->
        LET m == SelectSeq(df_precos_mercado, LAMBDA r : r.PRODUTO = df[i].PRODUTO)
        IN  [j \in DOMAIN m |->
                [PRODUTO |-> df[i].PRODUTO, Custo |-> df[i].Custo, Tipo |-> df[i].Tipo,
                 Preco |-> fillna(m[j].PRECO_VENDA_FINAL, Zero)]]])

\* step 6: pd.merge(..., on='PRODUTO', how='left') and fillna(0.0) of the price
merge_precos(df, df_precos_mercado) ==
    Concat([i \in DOMAIN df |->
        LET m == SelectSeq(df_precos_mercado, LAMBDA r : r.PRODUTO = df[i].PRODUTO)
        IN  IF m = <<>>
            THEN << [PRODUTO |-> df[i].PRODUTO, Custo |-> df[i].Custo,
                     Tipo |-> df[i].Tipo, Preco |-> fillna(NaN, Zero)] >>
            ELSE [j \in DOMAIN m |->
                     [PRODUTO |-> df[i].PRODUTO, Custo |-> df[i].Custo,
                      Tipo |-> df[i].Tipo,
                      Preco |-> fillna(m[j].PRECO_VENDA_FINAL, Zero)]]])

\* the cost column as step 7 leaves it: replace(0, np.nan)
custo_column(custo) == replace(custo, Zero, NaN)

\* the profit before it is rounded
lucro_exato(preco, custo) == fillna(replace_inf(FSub(preco, custo)), Zero)

\* 'Lucro Bruto (R$)'
lucro_bruto(preco, custo, acima) == FRound(lucro_exato(preco, custo), 2, acima)

\* the margin before it is rounded
margem_exata(lucro, preco) ==
    FMul(fillna(replace_inf(FDiv(lucro, preco)), Zero), F(100, 1))

\* 'Margem Bruta (%)'
margem_bruta(lucro, preco, acima) == FRound(margem_exata(lucro, preco), 1, acima)

\* step 7 on one row; lucro_acima and margem_acima tell the direction of a
\* halfway profit and of a halfway margin
margin_row(row, lucro_acima, margem_acima) ==
    LET custo == custo_column(row.Custo)
        lucro == lucro_bruto(row.Preco, custo, lucro_acima)
    IN  [PRODUTO |-> row.PRODUTO, Custo |-> custo, Tipo |-> row.Tipo,
         Preco |-> row.Preco, Lucro |-> lucro,
         Margem |-> margem_bruta(lucro, row.Preco, margem_acima)]

\* what steps 1 to 4 hand on: finais is the result of step 4
cost_maps_finais(master, bases, rendimento_bases, ajustado_dict, custo_total_dict, finais) ==
    [custo_bases_ajustado_dict |-> ajustado_dict,
     custo_finais_dict |-> finais.total_value_dict,
     custo_total_dict |-> custo_total_dict,
     df_bases_detalhe |-> bases.df,
     df_finais_detalhe |-> finais.df,
     rendimento_bases |-> rendimento_bases,
     unidade_ingredientes_dict |-> master.unidade_dict]

\* line 167 and step 4 on the unified map
cost_maps_total(df_finais, master, bases, rendimento_bases, ajustado_dict, custo_total_dict) ==
    cost_maps_finais(master, bases, rendimento_bases, ajustado_dict, custo_total_dict,
                     calculate_recipe_general(df_finais, custo_total_dict, "NOME_BOLO"))

\* lines 161 to 167 from the adjusted base map
cost_maps_ajustado(df_finais, master, bases, rendimento_bases, ajustado_dict) ==
    cost_maps_total(df_finais, master, bases, rendimento_bases, ajustado_dict,
                    total_dict(master.data_dict, ajustado_dict))

\* step 3 from the results of steps 1 and 2
cost_maps_bases(df_finais, master, bases, rendimento_bases) ==
    cost_maps_ajustado(df_finais, master, bases, rendimento_bases,
                       bases_ajustado_dict(bases.total_value_dict, rendimento_bases))

\* steps 2 to 4 from the result master of step 1
cost_maps_master(df_bases, df_finais, master) ==
    cost_maps_bases(df_finais, master,
                    calculate_recipe_general(df_bases, master.data_dict, "NOME_BASE"),
                    rendimento_bases_dict(df_bases))

\* steps 1 to 4: the value maps and the detail tables of the cost
cost_maps(df_ingredientes, df_bases, df_finais) ==
    cost_maps_master(df_bases, df_finais,
                     calculate_master_data(df_ingredientes, "VALOR_PACOTE"))

\* steps 5 and 6: the cost table joined with the prices
merged_frame(maps, df_precos_mercado, acima) ==
    merge_precos(compile_cost_frame(maps.custo_finais_dict,
                                    maps.custo_bases_ajustado_dict, acima),
                 df_precos_mercado)

\* step 7 on the joined table and the return value; arred gives, for the
\* profit and the margin, the rows rounded up if halfway
margins_and_return(maps, merged, arred) ==
    [df_precificacao_completa |->
         [i \in DOMAIN merged |->
             margin_row(merged[i], i \in arred.lucro, i \in arred.margem)],
     custo_total_dict |-> maps.custo_total_dict,
     df_bases_detalhe |-> maps.df_bases_detalhe,
     df_finais_detalhe |-> maps.df_finais_detalhe,
     rendimento_bases |-> maps.rendimento_bases,
     unidade_ingredientes_dict |-> maps.unidade_ingredientes_dict]

\* steps 5 to 7 from the maps of steps 1 to 4
price_and_margins(maps, df_precos_mercado, arred) ==
    margins_and_return(maps, merged_frame(maps, df_precos_mercado, arred.custo), arred)

\* arred gives, for the three rounded columns, the rows rounded up if halfway
get_calculated_cost_data(df_ingredientes, df_bases, df_finais, df_precos_mercado, arred) ==
    price_and_margins(cost_maps(df_ingredientes, df_bases, df_finais),
                      df_precos_mercado, arred)

\* the rows of the joined table m whose profit is halfway
lucro_ties(m) ==
    halfway([i \in DOMAIN m |-> lucro_exato(m[i].Preco, custo_column(m[i].Custo))], 2)

\* the rows of the joined table m whose margin is halfway, l the rows whose
\* profit is rounded up
margem_ties(m, l) ==
    halfway([i \in DOMAIN m |->
                margem_exata(lucro_bruto(m[i].Preco, custo_column(m[i].Custo), i \in l),
                             m[i].Preco)], 1)

\* the directions of the profit and margin roundings on the joined table m,
\* c the rows whose cost was rounded up
arredondamentos_margem(m, c) ==
    UNION { { [custo |-> c, lucro |-> l, margem |-> g] : g \in SUBSET margem_ties(m, l) } :
            l \in SUBSET lucro_ties(m) }

\* the directions the three roundings take from the maps of steps 1 to 4
arredondamentos_maps(maps, df_precos_mercado) ==
    UNION { arredondamentos_margem(merged_frame(maps, df_precos_mercado, c), c) :
            c \in SUBSET halfway(Column(cost_frame(maps.custo_finais_dict,
                                                   maps.custo_bases_ajustado_dict),
                                        "Custo"), 2) }

\* the directions the three roundings of get_calculated_cost_data can take on
\* these sheets: any of the rows whose cost is halfway, then any of the rows
\* whose profit is halfway, then any of the rows whose margin is halfway
arredondamentos_custo(df_ingredientes, df_bases, df_finais, df_precos_mercado) ==
    arredondamentos_maps(cost_maps(df_ingredientes, df_bases, df_finais),
                         df_precos_mercado)

----------------------------------------------------------------------------
(* get_calculated_nutrition_data *)

NUTRIENTES == <<"KCAL", "PROTEINA_G", "CARBO_G", "GORDURA_G", "FIBRA_G", "SODIO_MG">>

\* lines 254 to 260: the maps of one nutrient from the adjusted base map
nutriente_maps_ajustado(nutriente_ingredientes_dict, nutriente_bases_dict, ajustado) ==
    [ingredientes |-> nutriente_ingredientes_dict,
     bases |-> nutriente_bases_dict,
     ajustado |-> ajustado,
     total |-> total_dict(nutriente_ingredientes_dict, ajustado)]

\* step 3 of the loop body from the results of steps 1 and 2
nutriente_maps_bases(df_bases, nutriente_ingredientes_dict, nutriente_bases_dict) ==
    nutriente_maps_ajustado(nutriente_ingredientes_dict, nutriente_bases_dict,
        bases_ajustado_dict(nutriente_bases_dict, rendimento_bases_dict(df_bases)))

\* steps 2 and 3 of the loop body from the result of step 1
nutriente_maps_master(df_bases, nutriente_ingredientes_dict) ==
    nutriente_maps_bases(df_bases, nutriente_ingredientes_dict,
        calculate_recipe_general(df_bases, nutriente_ingredientes_dict,
                                 "NOME_BASE").total_value_dict)

\* the unified value map of one nutrient (steps 1 to 3 of the loop body)
nutriente_maps(df_ingredientes, df_bases, col_nutriente) ==
    nutriente_maps_master(df_bases,
        calculate_master_data(df_ingredientes, col_nutriente).data_dict)

\* pd.DataFrame(dict.items(), columns=['PRODUTO', display_name]); the dicts
\* come from a groupby, so their keys are in sorted order
nutri_items(dict) ==
    LET keys == sorted_keys(DOMAIN dict)
    IN  [i \in DOMAIN keys |-> [PRODUTO |-> keys[i], valor |-> dict[keys[i]]]]

\* steps 4 and 5 of the loop body from the maps of steps 1 to 3
nutri_frame_maps(df_finais, maps) ==
    nutri_items(maps.ajustado)
        \o nutri_items(calculate_recipe_general(df_finais, maps.total,
                                                "NOME_BOLO").total_value_dict)

\* df_nutri_temp before the rounding: bases then finals, one value column
nutri_frame(df_ingredientes, df_bases, df_finais, col_nutriente) ==
    nutri_frame_maps(df_finais, nutriente_maps(df_ingredientes, df_bases, col_nutriente))

\* line 276 on the table df of the nutrient col_nutriente
round_nutri(df, col_nutriente, arred) ==
    [i \in DOMAIN df |->
        [df[i] EXCEPT !.valor = FRound(@, 2, <<col_nutriente, i>> \in arred)]]

\* df_nutri_temp: the value column rounded to 2 decimals; arred holds the
\* pairs <<column, row>> rounded up if halfway
nutri_temp(df_ingredientes, df_bases, df_finais, col_nutriente, arred) ==
    round_nutri(nutri_frame(df_ingredientes, df_bases, df_finais, col_nutriente),
                col_nutriente, arred)

\* pd.merge(left, right, on='PRODUTO', how='outer'): keys sorted, every left row
\* of a key paired with every right row of it, NaN where a side has none.
\* left rows are [PRODUTO, nut] with nut a function on the columns cols.
merge_outer(left, cols, right, col) ==
    LET keys == sorted_keys(Range(Column(left, "PRODUTO")) \cup Range(Column(right, "PRODUTO")))
        nans == [c \in cols |-> NaN]
    IN  Concat([i \in DOMAIN keys |->
            LET l == SelectSeq(left, LAMBDA r : r.PRODUTO = keys[i])
                r == SelectSeq(right, LAMBDA x : x.PRODUTO = keys[i])
                ln == IF l = <<>> THEN << nans >> ELSE Column(l, "nut")
                rv == IF r = <<>> THEN << NaN >> ELSE Column(r, "valor")
            IN  Concat([a \in DOMAIN ln |->
                    [b \in DOMAIN rv |->
                        [PRODUTO |-> keys[i], nut |-> ln[a] @@ (col :> rv[b])]]])])

\* one pass of the loop body over df_nutrition_final (lines 279-282)
merge_nutriente(acc, temp, col) ==
    IF acc.is_none
    THEN [is_none |-> FALSE, cols |-> {col},
          df |-> [i \in DOMAIN temp |->
                    [PRODUTO |-> temp[i].PRODUTO, nut |-> (col :> temp[i].valor)]]]
    ELSE [is_none |-> FALSE, cols |-> acc.cols \cup {col},
          df |-> merge_outer(acc.df, acc.cols, temp, col)]

\* df_nutrition_final after the first n of the nutrient columns present
RECURSIVE nutrition_loop(_, _, _, _, _, _)
nutrition_loop(df_ingredientes, df_bases, df_finais, present, n, arred) ==
    IF n = 0 THEN [is_none |-> TRUE, cols |-> {}, df |-> <<>>]
    ELSE merge_nutriente(
             nutrition_loop(df_ingredientes, df_bases, df_finais, present, n - 1, arred),
             nutri_temp(df_ingredientes, df_bases, df_finais, present[n], arred),
             present[n])

\* df_nutrition_final: is_none when no nutrient column is present; the columns
\* absent from the ingredient sheet are skipped
get_calculated_nutrition_data(df_ingredientes, df_bases, df_finais, arred) ==
    LET present == SelectSeq(NUTRIENTES, LAMBDA c : c \in Columns(df_ingredientes))
    IN  nutrition_loop(df_ingredientes, df_bases, df_finais, present, Len(present), arred)

\* the directions the roundings of get_calculated_nutrition_data can take on
\* these sheets: any of the pairs <<column, row>> whose value is halfway
arredondamentos_nutricao(df_ingredientes, df_bases, df_finais) ==
    SUBSET UNION {
        {<<c, i>> : i \in halfway(Column(nutri_frame(df_ingredientes, df_bases,
                                                     df_finais, c), "valor"), 2)} :
        c \in {x \in Range(NUTRIENTES) : x \in Columns(df_ingredientes)} }

----------------------------------------------------------------------------
(* get_all_calculated_data: final merge and sort *)

\* pd.merge(df_precificacao_completa, df_nutrition_final, on='PRODUTO', how='left')
merge_nutrition(df, nutrition) ==
    IF nutrition.is_none THEN df
    ELSE Concat([i \in DOMAIN df |->
            LET m == SelectSeq(nutrition.df, LAMBDA r : r.PRODUTO = df[i].PRODUTO)
            IN  IF m = <<>>
                THEN << df[i] @@ [nut |-> [c \in nutrition.cols |-> NaN]] >>
                ELSE [j \in DOMAIN m |-> df[i] @@ [nut |-> m[j].nut]]])

\* the rows of s without their order: each distinct row with the number of
\* times it occurs
bag_of(s) == [r \in Range(s) |-> Cardinality({i \in DOMAIN s : s[i] = r})]

\* sort_values(by=price, ascending=False).  The sort (quicksort) fixes no order
\* among rows of equal price, so the sorted table is held as the sequence of
\* its groups of equal price, the greatest price first, each group the bag of
\* its rows: it stands for every order of the rows inside the groups.
sort_values(df) ==
    LET precos == {df[i].Preco : i \in DOMAIN df}
        rank(x) == IF IsNaN(x) THEN Cardinality(precos)
                   ELSE 1 + Cardinality({y \in precos : FLess(x, y)})
    IN  [p \in 1..Cardinality(precos) |->
            bag_of(SelectSeq(df, LAMBDA r : rank(r.Preco) = p))]

\* lines 297-308: the price table reduced to PRODUTO and the second column,
\* renamed PRECO_VENDA_FINAL and sanitized as a currency column.  When the
\* second column is PRODUTO itself the rename leaves it PRODUTO and the table
\* has no column PRECO_VENDA_FINAL.
prepare_precos(bruto) ==
    LET COL_PRECO_KEY == bruto.columns[2]
        df == [i \in DOMAIN bruto.rows |->
                  IF COL_PRECO_KEY = "PRODUTO"
                  THEN [PRODUTO |-> bruto.rows[i]["PRODUTO"]]
                  ELSE [PRODUTO |-> bruto.rows[i]["PRODUTO"],
                        PRECO_VENDA_FINAL |-> bruto.rows[i][COL_PRECO_KEY]]]
    IN  sanitize_and_convert(df, "PRECO_VENDA_FINAL")

----------------------------------------------------------------------------
(* the sheets the run may find *)

\* most lines of the sheet receitas_bases, and of the sheet receitas_finais
MaxLinhasBases == 2
MaxLinhasFinais == 2

IngRow(nome, unidade, quant, valor) ==
    [NOME_ITEM |-> nome, UNIDADE_PACOTE |-> unidade,
     QUANT_PACOTE |-> quant, VALOR_PACOTE |-> valor]

\* sheets ingredientes_mestres: with two, one and no nutrient column; a package
\* quantity that is 0 or text; a package value typed as a number with a decimal
\* point, left blank, or typed with a no-break space (U+00A0) after 'R$'; an
\* ingredient named like a base; a name listed twice
IngredientTables ==
    { << IngRow("FARINHA", "G", IntCell(4), TextCell("R$ 10,00"))
            @@ [KCAL |-> IntCell(3), PROTEINA_G |-> FloatCell(5, 1)],
         IngRow("ACUCAR", "G", IntCell(0), FloatCell(15, 1))
            @@ [KCAL |-> TextCell(""), PROTEINA_G |-> IntCell(1)] >>,
      << IngRow("FARINHA", "G", TextCell("a"), IntCell(3)) @@ [KCAL |-> IntCell(2)],
         IngRow("MASSA", "UN", IntCell(2), IntCell(1)) @@ [KCAL |-> IntCell(7)],
         IngRow("FARINHA", "G", IntCell(3), TextCell("R$ 10,00"))
            @@ [KCAL |-> IntCell(1)] >>,
      << IngRow("FARINHA", "G", IntCell(2), TextCell("")),
         IngRow("ACUCAR", "G", IntCell(-8), TextCell("0,5")) >> }

BaseRow(base, ingrediente, quant, rendimento) ==
    [NOME_BASE |-> base, NOME_INGREDIENTE |-> ingrediente,
     QUANT_RECEITA |-> quant, RENDIMENTO_FINAL_UNIDADES |-> rendimento]

\* lines of receitas_bases: a yield of 2, a blank yield on a further line of the
\* same base, a yield of 0, a line that names another base
BaseRows ==
    { BaseRow("MASSA", "FARINHA", IntCell(2), IntCell(2)),
      BaseRow("MASSA", "ACUCAR", FloatCell(15, 1), TextCell("")),
      BaseRow("RECHEIO", "MASSA", IntCell(3), IntCell(0)) }

FinalRow(bolo, ingrediente, quant) ==
    [NOME_BOLO |-> bolo, NOME_INGREDIENTE |-> ingrediente, QUANT_RECEITA |-> quant]

\* lines of receitas_finais: a line on a base, lines on ingredients, a final
\* product named like a base, an unparsable quantity
FinalRows ==
    { FinalRow("BOLO", "MASSA", IntCell(1)),
      FinalRow("BOLO", "ACUCAR", IntCell(2)),
      FinalRow("MASSA", "FARINHA", FloatCell(5, 1)),
      FinalRow("BOLO", "RECHEIO", TextCell("a")) }

SeqsUpTo(S, n) == UNION {[1..m -> S] : m \in 0..n}

\* further sheets receitas_bases: one base on three lines whose yields are
\* three different texts and numbers; one whose third yield is the first
\* written with a decimal point; a sheet without the yield column; a base with
\* a quantity typed 'inf' beside a line on an ingredient and a line on a name
\* that is neither ingredient nor base; a base whose yields are typed with a
\* vertical tab (U+000B) before and a space after the 4, and with a no-break
\* space (U+00A0) after it
OutrasBaseTables ==
    { << BaseRow("MASSA", "FARINHA", IntCell(2), TextCell("a")),
         BaseRow("MASSA", "ACUCAR", IntCell(1), IntCell(2)),
         BaseRow("MASSA", "FARINHA", IntCell(1), TextCell("b")) >>,
      << BaseRow("MASSA", "FARINHA", IntCell(2), IntCell(2)),
         BaseRow("MASSA", "ACUCAR", IntCell(1), TextCell("")),
         BaseRow("MASSA", "FARINHA", IntCell(1), FloatCell(20, 1)) >>,
      << [NOME_BASE |-> "MASSA", NOME_INGREDIENTE |-> "FARINHA",
          QUANT_RECEITA |-> IntCell(2)] >>,
      << BaseRow("MASSA", "ACUCAR", TextCell("inf"), IntCell(2)),
         BaseRow("MASSA", "FARINHA", IntCell(2), IntCell(2)),
         BaseRow("MASSA", "RECHEIO", IntCell(1), IntCell(2)) >>,
      << BaseRow("MASSA", "FARINHA", IntCell(2), TextCell("4 ")),
         BaseRow("MASSA", "ACUCAR", IntCell(1), TextCell("4 ")) >> }

\* a further sheet receitas_finais: without the quantity column
OutrasFinalTables ==
    { << [NOME_BOLO |-> "BOLO", NOME_INGREDIENTE |-> "MASSA"] >> }

\* a sheet without data lines has no columns at all
BaseTables == SeqsUpTo(BaseRows, MaxLinhasBases) \cup OutrasBaseTables
FinalTables == SeqsUpTo(FinalRows, MaxLinhasFinais) \cup OutrasFinalTables

\* sheets tabela_precos_mercado, the columns in sheet order and the lines: a
\* negative and a zero price in a column of numbers (dtype float64), a name
\* listed twice, a price typed as a number with a decimal point beside prices
\* typed as text, a blank price, a price typed 'inf', a third column, a single
\* column, PRODUTO as
\* the second column, no column named PRODUTO
PrecoTables ==
    { [columns |-> <<"PRODUTO", "PRECO">>,
       rows |-> << [PRODUTO |-> "BOLO", PRECO |-> TextCell("R$ 9,00")] >>],
      [columns |-> <<"PRODUTO", "PRECO">>,
       rows |-> << [PRODUTO |-> "BOLO", PRECO |-> IntCell(-5)],
                   [PRODUTO |-> "MASSA", PRECO |-> IntCell(0)],
                   [PRODUTO |-> "RECHEIO", PRECO |-> FloatCell(35, 1)] >>],
      [columns |-> <<"PRODUTO", "VALOR", "OBS">>,
       rows |-> << [PRODUTO |-> "BOLO", VALOR |-> TextCell("R$ 37,50"), OBS |-> TextCell("")],
                   [PRODUTO |-> "BOLO", VALOR |-> FloatCell(12, 1), OBS |-> TextCell("")],
                   [PRODUTO |-> "RECHEIO", VALOR |-> TextCell(""), OBS |-> TextCell("")],
                   [PRODUTO |-> "MASSA", VALOR |-> TextCell("1,005"), OBS |-> TextCell("")],
                   [PRODUTO |-> "RECHEIO", VALOR |-> TextCell("inf"), OBS |-> TextCell("")] >>],
      [columns |-> <<"PRODUTO">>, rows |-> << [PRODUTO |-> "BOLO"] >>],
      [columns |-> <<"PRECO", "PRODUTO">>,
       rows |-> << [PRECO |-> TextCell("R$ 9,00"), PRODUTO |-> "BOLO"] >>],
      [columns |-> <<"NOME", "PRECO">>,
       rows |-> << [NOME |-> "BOLO", PRECO |-> IntCell(9)] >>] }

----------------------------------------------------------------------------
(* get_all_calculated_data and the consultation of main as a state machine *)

VARIABLES
    pc,                       \* the step the run is at
    df_ingredientes,          \* the loaded sheets; <<>> until loaded
    df_bases,
    df_finais,
    df_precos_mercado_bruto,
    df_precos_mercado,        \* the price table after lines 306-308
    cost_data,                \* what get_calculated_cost_data returned
    df_nutrition_final,       \* what get_calculated_nutrition_data returned
    retorno,                  \* the product table get_all_calculated_data returns
    executado,                \* the rollup stages started, in order
    falha,                    \* "" or the step at which st.stop() ended the run
    selected_product,         \* the option chosen in the selectbox of main; "" before
    product_data,             \* the row main shows for it; <<>> when it shows none
    margem_color              \* the margin band main shows; "" when it shows none

vars == << pc, df_ingredientes, df_bases, df_finais, df_precos_mercado_bruto,
           df_precos_mercado, cost_data, df_nutrition_final, retorno, executado, falha,
           selected_product, product_data, margem_color >>

\* what main sets
tela == << selected_product, product_data, margem_color >>

LoadSteps == {"load_ingredientes", "load_bases", "load_finais", "load_precos"}

Init ==
    /\ pc = "load_ingredientes"
    /\ df_ingredientes = <<>>
    /\ df_bases = <<>>
    /\ df_finais = <<>>
    /\ df_precos_mercado_bruto = [columns |-> <<>>, rows |-> <<>>]
    /\ df_precos_mercado = <<>>
    /\ cost_data = <<>>
    /\ df_nutrition_final = <<>>
    /\ retorno = <<>>
    /\ executado = <<>>
    /\ falha = ""
    /\ selected_product = ""
    /\ product_data = <<>>
    /\ margem_color = ""

\* load_data_from_gsheets('ingredientes_mestres') returns a table
LoadIngredientes ==
    /\ pc = "load_ingredientes"
    /\ \E t \in IngredientTables : df_ingredientes' = t
    /\ pc' = "load_bases"
    /\ UNCHANGED << df_bases, df_finais, df_precos_mercado_bruto, df_precos_mercado,
                    cost_data, df_nutrition_final, retorno, executado, falha, tela >>

LoadBases ==
    /\ pc = "load_bases"
    /\ \E t \in BaseTables : df_bases' = t
    /\ pc' = "load_finais"
    /\ UNCHANGED << df_ingredientes, df_finais, df_precos_mercado_bruto, df_precos_mercado,
                    cost_data, df_nutrition_final, retorno, executado, falha, tela >>

LoadFinais ==
    /\ pc = "load_finais"
    /\ \E t \in FinalTables : df_finais' = t
    /\ pc' = "load_precos"
    /\ UNCHANGED << df_ingredientes, df_bases, df_precos_mercado_bruto, df_precos_mercado,
                    cost_data, df_nutrition_final, retorno, executado, falha, tela >>

LoadPrecos ==
    /\ pc = "load_precos"
    /\ \E t \in PrecoTables : df_precos_mercado_bruto' = t
    /\ pc' = "precos"
    /\ UNCHANGED << df_ingredientes, df_bases, df_finais, df_precos_mercado,
                    cost_data, df_nutrition_final, retorno, executado, falha, tela >>

\* a variant of after_load_error without the st.stop(): the load returns
\* nothing and the run goes on to the next step
after_load_error_continue(step) ==
    CASE step = "load_ingredientes" -> "load_bases"
      [] step = "load_bases" -> "load_finais"
      [] step = "load_finais" -> "load_precos"
      [] OTHER -> "precos"

\* where the run is after the except branch of load_data_from_gsheets
after_load_error(step) == "stopped"

\* load_data_from_gsheets: any exception while reading the sheet ends in st.stop()
LoadFails ==
    /\ pc \in LoadSteps
    /\ falha' = pc
    /\ pc' = after_load_error(pc)
    /\ UNCHANGED << df_ingredientes, df_bases, df_finais, df_precos_mercado_bruto,
                    df_precos_mercado, cost_data, df_nutrition_final, retorno, executado, tela >>

\* lines 300-302: fewer than two columns, st.stop()
colunas_check(bruto) == Len(bruto.columns) < 2

StopColunas ==
    /\ pc = "precos"
    /\ colunas_check(df_precos_mercado_bruto)
    /\ falha' = "precos"
    /\ pc' = "stopped"
    /\ UNCHANGED << df_ingredientes, df_bases, df_finais, df_precos_mercado_bruto,
                    df_precos_mercado, cost_data, df_nutrition_final, retorno, executado, tela >>

\* line 306: no column named PRODUTO, a KeyError leaves the function
RaisePrecos ==
    /\ pc = "precos"
    /\ ~colunas_check(df_precos_mercado_bruto)
    /\ "PRODUTO" \notin Range(df_precos_mercado_bruto.columns)
    /\ pc' = "raised"
    /\ UNCHANGED << df_ingredientes, df_bases, df_finais, df_precos_mercado_bruto,
                    df_precos_mercado, cost_data, df_nutrition_final, retorno,
                    executado, falha, tela >>

PreparePrecos ==
    /\ pc = "precos"
    /\ ~colunas_check(df_precos_mercado_bruto)
    /\ "PRODUTO" \in Range(df_precos_mercado_bruto.columns)
    /\ df_precos_mercado' = prepare_precos(df_precos_mercado_bruto)
    /\ pc' = "cost"
    /\ UNCHANGED << df_ingredientes, df_bases, df_finais, df_precos_mercado_bruto,
                    cost_data, df_nutrition_final, retorno, executado, falha, tela >>

\* the columns the cost stage indexes: of ingredientes_mestres (lines 90-101),
\* of receitas_bases (lines 115-131 and 157), of receitas_finais (lines
\* 115-131) and of the price table (line 187)
ColunasIngredientes == {"NOME_ITEM", "UNIDADE_PACOTE", "QUANT_PACOTE", "VALOR_PACOTE"}
ColunasBases ==
    {"NOME_BASE", "NOME_INGREDIENTE", "QUANT_RECEITA", "RENDIMENTO_FINAL_UNIDADES"}
ColunasFinais == {"NOME_BOLO", "NOME_INGREDIENTE", "QUANT_RECEITA"}
ColunasPrecos == {"PRODUTO", "PRECO_VENDA_FINAL"}

\* the three recipe sheets have the columns the roll-up indexes (a sheet
\* without data lines has none)
RecipeSheetsHaveColumns(ingredientes, bases, finais) ==
    /\ ColunasIngredientes \subseteq Columns(ingredientes)
    /\ ColunasBases \subseteq Columns(bases)
    /\ ColunasFinais \subseteq Columns(finais)

\* no KeyError leaves get_calculated_cost_data: every sheet has the columns
\* indexed (a price table may be left without PRECO_VENDA_FINAL)
SheetsHaveColumns ==
    /\ RecipeSheetsHaveColumns(df_ingredientes, df_bases, df_finais)
    /\ ColunasPrecos \subseteq Columns(df_precos_mercado)

\* line 311 when a KeyError leaves get_calculated_cost_data
RaiseCost ==
    /\ pc = "cost"
    /\ ~SheetsHaveColumns
    /\ executado' = Append(executado, "cost")
    /\ pc' = "raised"
    /\ UNCHANGED << df_ingredientes, df_bases, df_finais, df_precos_mercado_bruto,
                    df_precos_mercado, cost_data, df_nutrition_final, retorno, falha, tela >>

\* line 311
CostData ==
    /\ pc = "cost"
    /\ SheetsHaveColumns
    /\ \E arred \in arredondamentos_custo(df_ingredientes, df_bases, df_finais,
                                           df_precos_mercado) :
          cost_data' = get_calculated_cost_data(df_ingredientes, df_bases, df_finais,
                                                df_precos_mercado, arred)
    /\ executado' = Append(executado, "cost")
    /\ pc' = "nutrition"
    /\ UNCHANGED << df_ingredientes, df_bases, df_finais, df_precos_mercado_bruto,
                    df_precos_mercado, df_nutrition_final, retorno, falha, tela >>

\* line 316
NutritionData ==
    /\ pc = "nutrition"
    /\ \E arred \in arredondamentos_nutricao(df_ingredientes, df_bases, df_finais) :
          df_nutrition_final' = get_calculated_nutrition_data(df_ingredientes, df_bases,
                                                              df_finais, arred)
    /\ executado' = Append(executado, "nutrition")
    /\ pc' = "merge"
    /\ UNCHANGED << df_ingredientes, df_bases, df_finais, df_precos_mercado_bruto,
                    df_precos_mercado, cost_data, retorno, falha, tela >>

\* lines 319-330
MergeAndReturn ==
    /\ pc = "merge"
    /\ retorno' = sort_values(merge_nutrition(cost_data.df_precificacao_completa,
                                              df_nutrition_final))
    /\ pc' = "returned"
    /\ UNCHANGED << df_ingredientes, df_bases, df_finais, df_precos_mercado_bruto,
                    df_precos_mercado, cost_data, df_nutrition_final, executado, falha, tela >>

\* the placeholder the selectbox of main starts with
PLACEHOLDER == "Selecione um Produto..."

\* lines 444 and 465-468: the options of the selectbox after the placeholder
all_products == UNION {{r.PRODUTO : r \in DOMAIN retorno[g]} : g \in DOMAIN retorno}

\* line 502: the rows that can be the first row of the product table named
\* selected: those of the first group of equal price that holds the name
first_rows(df, selected) ==
    LET named(g) == {r \in DOMAIN df[g] : r.PRODUTO = selected}
        first == CHOOSE g \in DOMAIN df :
                     named(g) # {} /\ \A h \in 1..(g - 1) : named(h) = {}
    IN  named(first)

\* a > b on floats: false when either is NaN
FGreater(a, b) ==
    /\ ~IsNaN(a) /\ ~IsNaN(b)
    /\ a # b
    /\ IF IsInf(a) THEN a = PInf
       ELSE IF IsInf(b) THEN b = NInf
       ELSE FLess(b, a)

\* a >= b on floats: false when either is NaN
FGreaterEq(a, b) == ~IsNaN(a) /\ ~IsNaN(b) /\ (a = b \/ FGreater(a, b))

\* lines 526-532: the band shown for a margin percentage
margin_band(margem_percentual) ==
    IF FGreater(margem_percentual, F(40, 1)) THEN "Excelente"
    ELSE IF FGreaterEq(margem_percentual, F(20, 1)) THEN "Razoavel"
    ELSE "Baixa"

\* lines 470-492: the placeholder stays selected, main shows the overview
ShowOverview ==
    /\ pc = "returned"
    /\ selected_product' = PLACEHOLDER
    /\ product_data' = <<>>
    /\ margem_color' = ""
    /\ pc' = "overview"
    /\ UNCHANGED << df_ingredientes, df_bases, df_finais, df_precos_mercado_bruto,
                    df_precos_mercado, cost_data, df_nutrition_final, retorno,
                    executado, falha >>

\* lines 495-536: a product is selected; a base shows no band (lines 513-516)
ShowProduct ==
    /\ pc = "returned"
    /\ \E p \in all_products : \E row \in first_rows(retorno, p) :
           /\ selected_product' = p
           /\ product_data' = row
           /\ margem_color' =
                  IF row.Tipo = TipoBase THEN "" ELSE margin_band(row.Margem)
    /\ pc' = "displayed"
    /\ UNCHANGED << df_ingredientes, df_bases, df_finais, df_precos_mercado_bruto,
                    df_precos_mercado, cost_data, df_nutrition_final, retorno,
                    executado, falha >>

Next ==
    \/ LoadIngredientes
    \/ LoadBases
    \/ LoadFinais
    \/ LoadPrecos
    \/ LoadFails
    \/ StopColunas
    \/ RaisePrecos
    \/ PreparePrecos
    \/ RaiseCost
    \/ CostData
    \/ NutritionData
    \/ MergeAndReturn
    \/ ShowOverview
    \/ ShowProduct

Spec == Init /\ [][Next]_vars

----------------------------------------------------------------------------
(* properties: shared definitions *)

\* the run has returned, the cost stage's results among what it returns
HasCost == pc = "returned"

\* the three recipe sheets are read, each with the columns indexed: the sheets
\* every call of the roll-up works on, whatever the price sheet then holds
SheetsRead ==
    /\ pc = "load_precos"
    /\ RecipeSheetsHaveColumns(df_ingredientes, df_bases, df_finais)

\* the attributes rolled up in this run: the cost and the nutrient columns present
Attributes ==
    {"VALOR_PACOTE"} \cup {c \in Range(NUTRIENTES) : c \in Columns(df_ingredientes)}

\* the map dict with its values computed once: TLC looks a value of the result
\* up where it would compute the value of dict anew at every use
Stored(dict) == dict @@ <<>>

\* the ingredient value map of attribute a
MasterDict(a) == Stored(calculate_master_data(df_ingredientes, a).data_dict)

\* the call of calculate_recipe_general on the bases dfb, for attribute a
BasesCall(a, dfb) == calculate_recipe_general(dfb, MasterDict(a), "NOME_BASE")

\* the unified value map of attribute a when the sheet of bases is dfb
UnifiedOf(a, dfb) ==
    Stored(IF a = "VALOR_PACOTE"
           THEN cost_maps(df_ingredientes, dfb, df_finais).custo_total_dict
           ELSE nutriente_maps(df_ingredientes, dfb, a).total)

\* the call of calculate_recipe_general on the final products, for attribute a
FinaisCall(a, dfb) == calculate_recipe_general(df_finais, UnifiedOf(a, dfb), "NOME_BOLO")

\* the sum of VALOR_TOTAL_CALCULADO over the first n rows of df whose column col
\* is r, the row skip left out (skip = 0 leaves none out): the values added one
\* to the other as float64 adds them, a NaN among them making the sum NaN
RECURSIVE SumRows(_, _, _, _, _)
SumRows(df, col, r, skip, n) ==
    IF n = 0 THEN Zero
    ELSE FAdd(SumRows(df, col, r, skip, n - 1),
              IF df[n][col] = r /\ n # skip THEN df[n].VALOR_TOTAL_CALCULADO ELSE Zero)

RowsOf(df, col, r) == {i \in DOMAIN df : df[i][col] = r}

\* what rounding a to dec decimals can give: the nearest multiple of 10^-dec,
\* either neighbour when a is halfway
Rounded(a, dec) == {FRound(a, dec, FALSE), FRound(a, dec, TRUE)}

\* the cost cell of a row of the product table, 0 where the table shows none
CostCell(row) == fillna(row.Custo, Zero)

----------------------------------------------------------------------------
(* C1 *)

\* one call of calculate_recipe_general keeps one detail row per input line and
\* each total is the sum of the contributions of its rows, nothing rounded
SumInvariantOfCall(df_receitas, unit_value_dict, col) ==
    LET res == calculate_recipe_general(df_receitas, unit_value_dict, col)
    IN  /\ Len(res.df) = Len(df_receitas)
        /\ \A i \in DOMAIN df_receitas :
              /\ res.df[i][col] = df_receitas[i][col]
              /\ res.df[i].NOME_INGREDIENTE = df_receitas[i].NOME_INGREDIENTE
        /\ DOMAIN res.total_value_dict = Range(Column(df_receitas, col))
        /\ \A r \in DOMAIN res.total_value_dict :
              res.total_value_dict[r] = SumRows(res.df, col, r, 0, Len(res.df))

\* C1: for every call of calculate_recipe_general of the run (bases and finals,
\* cost and every nutrient present) and every grouping key r, the sum of
\* VALOR_TOTAL_CALCULADO over the detail rows of r is exactly the entry
\* total_value_dict[r], the detail has one row per input line, and nothing is
\* rounded; the details the run returns are those of the calls for the cost.
C1_SumInvariant ==
    /\ SheetsRead =>
          \A a \in Attributes :
              /\ SumInvariantOfCall(df_bases, MasterDict(a), "NOME_BASE")
              /\ SumInvariantOfCall(df_finais, UnifiedOf(a, df_bases), "NOME_BOLO")
    /\ HasCost =>
          /\ cost_data.df_bases_detalhe = BasesCall("VALOR_PACOTE", df_bases).df
          /\ cost_data.df_finais_detalhe = FinaisCall("VALOR_PACOTE", df_bases).df

----------------------------------------------------------------------------
(* C2 *)

\* the rolled-up cost of a row of the product table, before it is rounded: of
\* a base its entry of the unified map, of a final product the total of its
\* detail lines
RolledCost(produto, tipo) ==
    IF tipo = TipoBase
    THEN cost_data.custo_total_dict[produto]
    ELSE groupby_sum(cost_data.df_finais_detalhe, "NOME_BOLO")[produto]

\* C2: no cell of the product table returned by get_calculated_cost_data (cost,
\* price, profit, margin) is NaN or +/-Infinity, and the value derived from a zero
\* is 0: a rolled-up cost of 0 shows as cost 0, a price of 0 gives margin 0.
C2_NoNaNNoInfinity ==
    HasCost =>
        \A i \in DOMAIN cost_data.df_precificacao_completa :
            LET row == cost_data.df_precificacao_completa[i]
            IN  /\ IsNum(row.Custo) /\ IsNum(row.Preco)
                /\ IsNum(row.Lucro) /\ IsNum(row.Margem)
                /\ IsZero(RolledCost(row.PRODUTO, row.Tipo)) => IsZero(row.Custo)
                /\ IsZero(row.Preco) => IsZero(row.Margem)

----------------------------------------------------------------------------
(* C3 *)

Hundred == F(100, 1)

\* profit / price * 100 at the one decimal the table keeps
MarginOf(lucro, preco) == Rounded(FMul(FDiv(lucro, preco), Hundred), 1)

\* C3 as stated: in every row of the product table the margin is profit / price *
\* 100 (at the table's one decimal) when price > 0, and 0 whenever the price is
\* not greater than 0: zero, missing or negative.
C3_MarginOnlyForPositivePrice ==
    HasCost =>
        \A i \in DOMAIN cost_data.df_precificacao_completa :
            LET row == cost_data.df_precificacao_completa[i]
            IN  IF FLess(Zero, row.Preco)
                THEN row.Margem \in MarginOf(row.Lucro, row.Preco)
                ELSE row.Margem = Zero

----------------------------------------------------------------------------
(* C4 *)

\* C4: in every row of the product table, final products and bases alike, the
\* profit is the price minus the cost (at the table's two decimals), also in the
\* rows whose cost is 0 and in the rows whose price is 0.
C4_ProfitIsPriceMinusCost ==
    HasCost =>
        \A i \in DOMAIN cost_data.df_precificacao_completa :
            LET row == cost_data.df_precificacao_completa[i]
            IN  \E custo \in Rounded(RolledCost(row.PRODUTO, row.Tipo), 2) :
                    row.Lucro \in Rounded(FSub(row.Preco, custo), 2)

----------------------------------------------------------------------------
(* C5 *)

\* the names the market-price table lists
MarketNames == Range(Column(df_precos_mercado, "PRODUTO"))

\* the (name, type) pairs the rollup produces
Products ==
    {<<p, TipoBase>> : p \in Range(Column(df_bases, "NOME_BASE"))}
    \cup {<<p, TipoFinal>> : p \in Range(Column(df_finais, "NOME_BOLO"))}

\* the rows of the product table of one product
ProductRows(p) ==
    {i \in DOMAIN cost_data.df_precificacao_completa :
        /\ cost_data.df_precificacao_completa[i].PRODUTO = p[1]
        /\ cost_data.df_precificacao_completa[i].Tipo = p[2]}

\* a product with a positive rolled-up cost and no market price
Unpriced(p) == FLess(Zero, RolledCost(p[1], p[2])) /\ p[1] \notin MarketNames

\* C5 as stated: a product with a positive rolled-up cost and no row of its name
\* in the market-price table appears in the product table with price 0, profit 0
\* and margin 0.
C5_UnpricedProfitZero ==
    HasCost =>
        \A p \in Products :
            Unpriced(p) =>
                /\ ProductRows(p) # {}
                /\ \A i \in ProductRows(p) :
                      LET row == cost_data.df_precificacao_completa[i]
                      IN  IsZero(row.Preco) /\ IsZero(row.Lucro) /\ IsZero(row.Margem)

\* C5 amended: such a product appears in the product table with price 0, margin
\* 0 and a profit of minus its cost rounded to two decimals, or of 0 when its
\* cost is infinite (the cost cell is then the one infinity of the row).
C5_UnpricedProfitMinusCost ==
    HasCost =>
        \A p \in Products :
            Unpriced(p) =>
                /\ ProductRows(p) # {}
                /\ \A i \in ProductRows(p) :
                      LET row == cost_data.df_precificacao_completa[i]
                      IN  /\ IsZero(row.Preco)
                          /\ CostCell(row) \in Rounded(RolledCost(p[1], p[2]), 2)
                          /\ row.Lucro = IF IsInf(CostCell(row)) THEN Zero
                                         ELSE FNeg(CostCell(row))
                          /\ IsZero(row.Margem)

\* an unpriced final product with a cost of a cent or more and an unpriced base
\* with an infinite cost, next to a priced product
C5_Witness ==
    /\ HasCost
    /\ \E p \in Products :
          /\ Unpriced(p) /\ p[2] = TipoFinal
          /\ IsNum(RolledCost(p[1], p[2]))
          /\ ~IsZero(FRound(RolledCost(p[1], p[2]), 2, FALSE))
    /\ \E p \in Products :
          Unpriced(p) /\ p[2] = TipoBase /\ IsInf(RolledCost(p[1], p[2]))
    /\ \E p \in Products : p[1] \in MarketNames

----------------------------------------------------------------------------
(* C6 *)

\* C6: every row of the product table carries a multiplier, price / cost when
\* the cost is greater than 0 and 0 when the cost is 0.
C6_MultiplierColumn ==
    HasCost =>
        \A i \in DOMAIN cost_data.df_precificacao_completa :
            LET row == cost_data.df_precificacao_completa[i]
                custo == CostCell(row)
            IN  /\ "Multiplicador" \in DOMAIN row
                /\ row["Multiplicador"] =
                      IF FLess(Zero, custo) THEN FDiv(row.Preco, custo) ELSE Zero

----------------------------------------------------------------------------
(* C7 *)

BaseNames == Range(Column(df_bases, "NOME_BASE"))

\* the yield cells on the lines of base b
YieldCells(b) ==
    {df_bases[i].RENDIMENTO_FINAL_UNIDADES : i \in RowsOf(df_bases, "NOME_BASE", b)}

\* the batch total of base b for attribute a: the sum of the contributions of
\* its lines in the detail of the bases
BatchTotal(a, b) ==
    SumRows(BasesCall(a, df_bases).df, "NOME_BASE", b, 0, Len(df_bases))

\* the sheet of bases with the yield of base b written as the integer y
WithYield(b, y) ==
    [i \in DOMAIN df_bases |->
        IF df_bases[i].NOME_BASE = b
        THEN [df_bases[i] EXCEPT !.RENDIMENTO_FINAL_UNIDADES = IntCell(y)]
        ELSE df_bases[i]]

\* the value base b should have: V / y for a yield y > 0, V for a yield that is
\* 0 or unparsable
YieldValue(a, b, c) ==
    LET V == BatchTotal(a, b)
        y == to_numeric(c)
    IN  IF IsNaN(y) \/ IsZero(y) THEN V ELSE FDiv(V, y)

\* the yield cell c is one the claim speaks of: y > 0, 0 or unparsable
Declared(c) == LET y == to_numeric(c) IN IsNaN(y) \/ IsZero(y) \/ FLess(Zero, y)

\* C7: for every base whose lines declare one yield y, with batch total V (the
\* sum of its line contributions), the
\* value stored in the unified value map and used as unit value by every
\* final-product line on the base is V / y when y > 0 and V when y is 0 or
\* unparsable; with the yield doubled the stored value is halved.  For the cost
\* and for every nutrient present.
C7_YieldScaling ==
    /\ SheetsRead =>
          \A a \in Attributes :
              LET unified == UnifiedOf(a, df_bases)
                  finais == FinaisCall(a, df_bases).df
              IN  \A b \in BaseNames : \A c \in YieldCells(b) :
                      (YieldCells(b) = {c} /\ Declared(c)) =>
                          LET valor == YieldValue(a, b, c)
                          IN  /\ unified[b] = valor
                              /\ \A i \in DOMAIN df_finais :
                                    df_finais[i].NOME_INGREDIENTE = b =>
                                        finais[i].VALOR_UNITARIO_ITEM = valor
                              /\ (c.t = "int" /\ c.n > 0) =>
                                    FMul(UnifiedOf(a, WithYield(b, 2 * c.n))[b], F(2, 1))
                                        = unified[b]
    /\ HasCost =>
          \A b \in BaseNames : \A c \in YieldCells(b) :
              (YieldCells(b) = {c} /\ Declared(c)) =>
                  /\ cost_data.custo_total_dict[b] = YieldValue("VALOR_PACOTE", b, c)
                  /\ \A i \in DOMAIN df_finais :
                        df_finais[i].NOME_INGREDIENTE = b =>
                            cost_data.df_finais_detalhe[i].VALOR_UNITARIO_ITEM
                                = YieldValue("VALOR_PACOTE", b, c)

----------------------------------------------------------------------------
(* C8 *)

\* the names of the ingredient map and of the base map
KnownNames(a) == DOMAIN MasterDict(a) \cup BaseNames

\* in the call res on the lines df_receitas, every line on a name known to
\* neither map has unit value 0 and contribution 0, and the total of its recipe
\* is the sum over the other lines of the recipe
UnknownLinesCountZero(a, df_receitas, res, col) ==
    \A i \in DOMAIN df_receitas :
        df_receitas[i].NOME_INGREDIENTE \notin KnownNames(a) =>
            /\ Len(res.df) = Len(df_receitas)
            /\ res.df[i].NOME_INGREDIENTE = df_receitas[i].NOME_INGREDIENTE
            /\ res.df[i].VALOR_UNITARIO_ITEM = Zero
            /\ res.df[i].VALOR_TOTAL_CALCULADO = Zero
            /\ res.total_value_dict[df_receitas[i][col]]
                  = SumRows(res.df, col, df_receitas[i][col], i, Len(res.df))

\* C8: a recipe line, of a base or of a final product, whose component is in
\* neither the ingredient map nor the base map does not stop the rollup: the
\* line is in the detail with unit value 0 and contribution 0 and the total of
\* its recipe is the sum of the contributions of its other lines, for the cost
\* and for every nutrient present.
C8_UnknownComponent ==
    /\ SheetsRead =>
          \A a \in Attributes :
              /\ UnknownLinesCountZero(a, df_bases, BasesCall(a, df_bases), "NOME_BASE")
              /\ UnknownLinesCountZero(a, df_finais, FinaisCall(a, df_bases), "NOME_BOLO")
    /\ HasCost =>
          /\ UnknownLinesCountZero("VALOR_PACOTE", df_bases,
                 [df |-> cost_data.df_bases_detalhe,
                  total_value_dict |->
                      BasesCall("VALOR_PACOTE", df_bases).total_value_dict],
                 "NOME_BASE")
          /\ UnknownLinesCountZero("VALOR_PACOTE", df_finais,
                 [df |-> cost_data.df_finais_detalhe,
                  total_value_dict |->
                      FinaisCall("VALOR_PACOTE", df_bases).total_value_dict],
                 "NOME_BOLO")

----------------------------------------------------------------------------
(* C9 *)

RollupSteps == {"cost", "nutrition", "merge", "returned"}

\* C9: when a sheet fails to load or the market-price table has fewer than two
\* columns the run fails as a whole: it is stopped, no rollup stage has run or
\* runs afterwards and no product table is returned; a run that reaches a
\* rollup stage has loaded all four sheets and a price table of two columns.
C9_FailsAsAWhole ==
    /\ falha # "" =>
          /\ pc = "stopped"
          /\ executado = <<>>
          /\ cost_data = <<>> /\ df_nutrition_final = <<>> /\ retorno = <<>>
    /\ (pc \in RollupSteps \/ executado # <<>>) =>
          /\ falha = ""
          /\ Len(df_precos_mercado_bruto.columns) >= 2
    /\ (pc = "precos" /\ Len(df_precos_mercado_bruto.columns) < 2) =>
          ~ENABLED (PreparePrecos \/ RaisePrecos)

\* a run stopped on a price table of one column, the other three sheets loaded
C9_WitnessColunas ==
    /\ pc = "stopped" /\ falha = "precos"
    /\ Len(df_precos_mercado_bruto.columns) = 1
    /\ df_ingredientes # <<>> /\ df_bases # <<>> /\ df_finais # <<>>

----------------------------------------------------------------------------
(* C10 *)

\* the yield-normalized base map of attribute a
AjustadoDict(a) ==
    Stored(bases_ajustado_dict(BasesCall(a, df_bases).total_value_dict,
                               rendimento_bases_dict(df_bases)))

\* C10: in the unified value map a name that is only a master ingredient has
\* the ingredient's unit value and a name that is a base has the base's
\* yield-normalized value, also when the name is an ingredient too; every
\* final-product line uses that value as its unit value.  For the cost and for
\* every nutrient present.
C10_BaseOverridesIngredient ==
    /\ SheetsRead =>
          \A a \in Attributes :
              LET unified == UnifiedOf(a, df_bases)
                  ajustado == AjustadoDict(a)
                  master == MasterDict(a)
                  finais == FinaisCall(a, df_bases).df
                  known == KnownNames(a)
                  valor(nome) == IF nome \in BaseNames THEN ajustado[nome]
                                 ELSE master[nome]
              IN  /\ DOMAIN unified = known
                  /\ \A nome \in known : unified[nome] = valor(nome)
                  /\ \A i \in DOMAIN df_finais :
                        df_finais[i].NOME_INGREDIENTE \in known =>
                            finais[i].VALOR_UNITARIO_ITEM
                                = valor(df_finais[i].NOME_INGREDIENTE)
    /\ HasCost =>
          LET unified == UnifiedOf("VALOR_PACOTE", df_bases)
          IN  /\ cost_data.custo_total_dict = unified
              /\ \A i \in DOMAIN df_finais :
                    cost_data.df_finais_detalhe[i].VALOR_UNITARIO_ITEM
                        = Get(unified, df_finais[i].NOME_INGREDIENTE, Zero)

\* a name that is an ingredient and a base, with different values for the cost
\* and for a nutrient, used by a final-product line, beside a final-product line
\* on a name that is only an ingredient
C10_Witness ==
    /\ HasCost
    /\ Cardinality(Attributes) >= 2
    /\ \E nome \in BaseNames :
          /\ \A a \in Attributes :
                /\ nome \in DOMAIN MasterDict(a)
                /\ MasterDict(a)[nome] # AjustadoDict(a)[nome]
          /\ \E i \in DOMAIN df_finais : df_finais[i].NOME_INGREDIENTE = nome
    /\ \E i \in DOMAIN df_finais :
          /\ df_finais[i].NOME_INGREDIENTE \notin BaseNames
          /\ df_finais[i].NOME_INGREDIENTE \in DOMAIN MasterDict("VALOR_PACOTE")

----------------------------------------------------------------------------
(* C11: the margin bands *)

\* the row main shows once a product is selected
ShownRow == product_data

\* main shows a margin band: a final product is selected
ShowsBand == pc = "displayed" /\ ShownRow.Tipo # TipoBase

\* C11: the band shown for a final product with margin m is Excelente when
\* m >= 40, Razoavel when 20 <= m < 40 and Baixa when m < 20; a margin of
\* exactly 40.0 is shown as Excelente
C11_MarginBands ==
    ShowsBand =>
        LET m == ShownRow.Margem
        IN  margem_color =
                IF FGreaterEq(m, F(40, 1)) THEN "Excelente"
                ELSE IF FGreaterEq(m, F(20, 1)) THEN "Razoavel"
                ELSE "Baixa"

----------------------------------------------------------------------------
(* C12: a base is rolled up from the ingredient map and its own lines *)

\* the lines of base b, in sheet order
OwnLines(b) == SelectSeq(df_bases, LAMBDA r : r.NOME_BASE = b)

\* the yield-normalized base map of attribute a when the sheet of bases is dfb
AjustadoOf(a, dfb) ==
    Stored(bases_ajustado_dict(BasesCall(a, dfb).total_value_dict,
                               rendimento_bases_dict(dfb)))

\* the per-unit value of base b the run holds for attribute a: in the cost map
\* it returns, and in the unified map of the nutrient
StoredValue(a, b) ==
    IF a = "VALOR_PACOTE" THEN cost_data.custo_total_dict[b]
    ELSE nutriente_maps(df_ingredientes, df_bases, a).total[b]

\* the lines of the sheet of bases that name another base as their ingredient
LinesOnAnotherBase ==
    {i \in DOMAIN df_bases :
        /\ df_bases[i].NOME_INGREDIENTE \in BaseNames
        /\ df_bases[i].NOME_INGREDIENTE # df_bases[i].NOME_BASE}

\* the batch total and the per-unit value of every base are those computed from
\* the sheet reduced to the base's own lines
OwnLinesOnly ==
    \A a \in Attributes :
        LET bases == BasesCall(a, df_bases).total_value_dict
            unified == UnifiedOf(a, df_bases)
        IN  \A b \in BaseNames :
                LET own == OwnLines(b)
                IN  /\ bases[b] = BasesCall(a, own).total_value_dict[b]
                    /\ unified[b] = AjustadoOf(a, own)[b]

\* the per-unit cost the run holds for every base is the one computed from the
\* base's own lines
OwnLinesOnlyCost ==
    \A b \in BaseNames :
        cost_data.custo_total_dict[b] = AjustadoOf("VALOR_PACOTE", OwnLines(b))[b]

\* C12 as stated: the total of a base is a function of the ingredient map and
\* the base's own lines, and every base line that names another base
\* contributes 0.  For the cost and for every nutrient present.
C12_BaseLineOnBaseCountsZero ==
    /\ SheetsRead =>
          /\ OwnLinesOnly
          /\ \A a \in Attributes : \A i \in LinesOnAnotherBase :
                BasesCall(a, df_bases).df[i].VALOR_TOTAL_CALCULADO = Zero
    /\ HasCost =>
          /\ OwnLinesOnlyCost
          /\ \A i \in LinesOnAnotherBase :
                cost_data.df_bases_detalhe[i].VALOR_TOTAL_CALCULADO = Zero

\* C12: the total of a base is a function of the ingredient map and the base's
\* own lines; a base line that names another base is valued from the ingredient
\* map alone: it contributes 0 when the name is no master ingredient, and
\* quantity * the ingredient's unit value when the name is a master ingredient
\* too, never the other base's value.  For the cost and for every nutrient
\* present.
C12_BaseFromIngredientMapOnly ==
    /\ SheetsRead =>
          /\ OwnLinesOnly
          /\ \A a \in Attributes : \A i \in LinesOnAnotherBase :
                LET linha == BasesCall(a, df_bases).df[i]
                    nome == df_bases[i].NOME_INGREDIENTE
                    master == MasterDict(a)
                IN  IF nome \in DOMAIN master
                    THEN /\ linha.VALOR_UNITARIO_ITEM = master[nome]
                         /\ linha.VALOR_TOTAL_CALCULADO
                               = calc_item_total_value(nome, linha.QUANT_RECEITA,
                                                       master)
                    ELSE /\ linha.VALOR_UNITARIO_ITEM = Zero
                         /\ linha.VALOR_TOTAL_CALCULADO = Zero
    /\ HasCost =>
          /\ OwnLinesOnlyCost
          /\ \A i \in LinesOnAnotherBase :
                cost_data.df_bases_detalhe[i]
                    = BasesCall("VALOR_PACOTE", df_bases).df[i]

\* two bases in the sheet, one with a line on the other: in one run the other
\* base is no ingredient and has a per-unit cost that is not 0; in another it
\* is an ingredient too, whose value differs from the base's
C12_Witness ==
    /\ HasCost
    /\ Cardinality(BaseNames) = 2
    /\ \E i \in LinesOnAnotherBase :
          LET nome == df_bases[i].NOME_INGREDIENTE
          IN  /\ nome \notin DOMAIN MasterDict("VALOR_PACOTE")
              /\ ~IsZero(AjustadoOf("VALOR_PACOTE", df_bases)[nome])
              /\ quant_receita(df_bases[i].QUANT_RECEITA) # Zero
              /\ cost_data.df_bases_detalhe[i].VALOR_TOTAL_CALCULADO = Zero

----------------------------------------------------------------------------
(* C13: the yield of a base whose lines carry different yields *)

\* the lines of base b that open a (base, yield) pair: no earlier line of b
\* carries an equal yield (2 and 2.0 are equal, a blank differs from both)
PairLines(b) ==
    {i \in RowsOf(df_bases, "NOME_BASE", b) :
        \A j \in RowsOf(df_bases, "NOME_BASE", b) :
            j < i => cell_key(df_bases[j].RENDIMENTO_FINAL_UNIDADES)
                        # cell_key(df_bases[i].RENDIMENTO_FINAL_UNIDADES)}

\* the line that opens the last pair of base b
LastPairLine(b) == CHOOSE i \in PairLines(b) : \A j \in PairLines(b) : j <= i

\* the coerced yield a line carries: blank, text and 0 count as 1
CoercedYield(i) ==
    LET y == to_numeric(df_bases[i].RENDIMENTO_FINAL_UNIDADES)
    IN  IF IsNaN(y) \/ IsZero(y) THEN One ELSE y

\* the divisor of base b
Divisor(b) == CoercedYield(LastPairLine(b))

\* the batch total the roll-up holds for base b and attribute a
TotalOfBase(a, b) == BasesCall(a, df_bases).total_value_dict[b]

\* C13: the divisor applied to a base is the coerced yield of the last distinct
\* (base, yield) pair of the sheet, in sheet order: the run returns it as the
\* yield of the base, and the per-unit value the run holds for the base is the
\* batch total the roll-up holds for it divided by this divisor, for the cost
\* and for every nutrient present.
C13_LastYieldPairDivides ==
    HasCost =>
        \A b \in BaseNames :
            /\ cost_data.rendimento_bases[b] = Divisor(b)
            /\ \A a \in Attributes :
                  StoredValue(a, b) = FDiv(TotalOfBase(a, b), Divisor(b))

\* a base with the yield 2 on its first line and a blank yield on its second:
\* the divisor is 1, neither the first nor the largest yield, and the batch
\* totals of the cost and of a nutrient are not 0
C13_Witness ==
    /\ HasCost
    /\ \E b \in BaseNames :
          LET linhas == RowsOf(df_bases, "NOME_BASE", b)
              primeira == CHOOSE i \in linhas : \A j \in linhas : i <= j
          IN  /\ Cardinality(PairLines(b)) >= 2
              /\ Divisor(b) # CoercedYield(primeira)
              /\ \E i \in linhas : FLess(Divisor(b), CoercedYield(i))
              /\ Cardinality(Attributes) >= 2
              /\ \A a \in Attributes : ~IsZero(TotalOfBase(a, b))

----------------------------------------------------------------------------
(* C14: one row per product and type *)

FinalNames == Range(Column(df_finais, "NOME_BOLO"))

\* the rows of the returned product table: the k-th occurrence of the row r
\* in the g-th group of equal price, as <<g, r, k>>
RowsReturned ==
    UNION { UNION { {<<g, r, k>> : k \in 1..retorno[g][r]} : r \in DOMAIN retorno[g] } :
            g \in DOMAIN retorno }

\* the rows of the returned product table named nome with the type tipo
RowsNamed(nome, tipo) ==
    {o \in RowsReturned : o[2].PRODUTO = nome /\ o[2].Tipo = tipo}

\* C14: in the product table get_all_calculated_data returns every final
\* product and every base has exactly one row, so the table has as many rows
\* as there are distinct final-product names plus distinct base names.
C14_OneRowPerProduct ==
    HasCost =>
        /\ Cardinality(RowsReturned) = Cardinality(FinalNames) + Cardinality(BaseNames)
        /\ \A nome \in FinalNames : Cardinality(RowsNamed(nome, TipoFinal)) = 1
        /\ \A nome \in BaseNames : Cardinality(RowsNamed(nome, TipoBase)) = 1

====
